---- MODULE Spec2Model ----
(***************************************************************************)
(* Model of the portfolio view of vyxoz-app:                               *)
(*   components/PortfolioTokenDisplay.tsx                                  *)
(* The component receives the token list, the loading flag and the error   *)
(* from its parent, keeps the sort criterion in its own state, sorts the   *)
(* list (useMemo), and renders either a flat list or, under the chain      *)
(* criterion, one section per chain with a subtotal and a count.           *)
(*                                                                         *)
(* Representation                                                          *)
(*   - a JavaScript string is a sequence of one-character strings;         *)
(*   - a JavaScript number is a record [nan, v], v counted in hundredths   *)
(*     (two decimals, exact arithmetic; no Infinity, no exponent);         *)
(*   - an optional field is a record [t, s, n] with t one of "undefined",  *)
(*     "string", "number";                                                 *)
(*   - an object reference to a holding is its position in tokens.         *)
(***************************************************************************)
EXTENDS Integers, Sequences, FiniteSets, TLC

VARIABLES
    tokens,        \* prop: the holdings handed in by the parent
    loading,       \* prop
    error,         \* prop: TRUE when an error message is set
    sortBy,        \* useState<SortOption>
    sortedTokens,  \* useMemo: sequence of references into tokens
    screen,        \* what the last render returned
    overview,      \* HomeScreen: the Portfolio Overview above the list
    chainInput,    \* a raw chain identifier handed to the chain normalizer
    chainOutput,   \* the normalizer's answer for chainInput
    cardItem,      \* the holding handed to renderToken
    cardShown,     \* the price, quantity and value rows renderToken returned
    user,          \* AuthProvider: useState<User | null>
    token,         \* AuthProvider: useState<string | null>
    isLoading,     \* AuthProvider: useState(true)
    storage,       \* AsyncStorage: the entries authToken and user
    calls,         \* the async calls of the AuthProvider, in order of start
    requests,      \* the HTTP requests sent so far
    mountedHook,   \* which of the two data hooks is mounted
    useWalletTracking,  \* its useState values: trackedWallets, tokens, loading, error
    useWalletTokens,    \* its useState values: wallets, walletTokens, loading, refreshing, error
    fetches,       \* the HTTP requests of the mounted hook, in order of issue
    interval       \* TRUE while the hook's setInterval timer is armed

componentVars == <<tokens, loading, error, sortBy, sortedTokens, screen, overview>>
normalizerVars == <<chainInput, chainOutput>>
cardVars == <<cardItem, cardShown>>
authVars == <<user, token, isLoading, storage, calls, requests>>
hookVars == <<mountedHook, useWalletTracking, useWalletTokens, fetches, interval>>

vars == <<componentVars, normalizerVars, cardVars, authVars, hookVars>>

MaxTokens == 3

(***************************************************************************)
(* Characters and strings                                                  *)
(***************************************************************************)
LowerLetters ==
    <<"a","b","c","d","e","f","g","h","i","j","k","l","m",
      "n","o","p","q","r","s","t","u","v","w","x","y","z">>

UpperLetters ==
    <<"A","B","C","D","E","F","G","H","I","J","K","L","M",
      "N","O","P","Q","R","S","T","U","V","W","X","Y","Z">>

Digits == <<"0","1","2","3","4","5","6","7","8","9">>

LowerToUpper ==
    [c \in {LowerLetters[i] : i \in 1..26} |->
        UpperLetters[CHOOSE i \in 1..26 : LowerLetters[i] = c]]

UpperToLower ==
    [c \in {UpperLetters[i] : i \in 1..26} |->
        LowerLetters[CHOOSE i \in 1..26 : UpperLetters[i] = c]]

DigitValues ==
    [c \in {Digits[i] : i \in 1..10} |-> (CHOOSE i \in 1..10 : Digits[i] = c) - 1]

IsLower(c) == c \in DOMAIN LowerToUpper
IsUpper(c) == c \in DOMAIN UpperToLower
IsDigit(c) == c \in DOMAIN DigitValues
DigitVal(c) == DigitValues[c]

toUpperCaseChar(c) == IF IsLower(c) THEN LowerToUpper[c] ELSE c

toLowerCaseChar(c) == IF IsUpper(c) THEN UpperToLower[c] ELSE c

toUpperCase(s) == [i \in 1..Len(s) |-> toUpperCaseChar(s[i])]

toLowerCase(s) == [i \in 1..Len(s) |-> toLowerCaseChar(s[i])]

\* Collation rank of a character: punctuation, then digits, then letters,
\* a letter and its capital sharing the primary rank.
LetterRanks ==
    [c \in DOMAIN LowerToUpper \cup DOMAIN UpperToLower |->
        20 + (CHOOSE i \in 1..26 : LowerLetters[i] = c \/ UpperLetters[i] = c)]

CollationRank(c) ==
    IF IsDigit(c) THEN 10 + DigitVal(c)
    ELSE IF c \in DOMAIN LetterRanks THEN LetterRanks[c]
    ELSE 1

RECURSIVE localeCompareFrom(_, _, _)
localeCompareFrom(a, b, i) ==
    IF i > Len(a) /\ i > Len(b) THEN 0
    ELSE IF i > Len(a) THEN -1
    ELSE IF i > Len(b) THEN 1
    ELSE IF CollationRank(a[i]) < CollationRank(b[i]) THEN -1
    ELSE IF CollationRank(a[i]) > CollationRank(b[i]) THEN 1
    ELSE localeCompareFrom(a, b, i + 1)

\* a.localeCompare(b), on the lower-cased keys the comparator passes
localeCompare(a, b) == localeCompareFrom(a, b, 1)

(***************************************************************************)
(* Numbers                                                                 *)
(***************************************************************************)
NaN == [nan |-> TRUE, v |-> 0]
Num(v) == [nan |-> FALSE, v |-> v]

NumSub(a, b) == IF a.nan \/ b.nan THEN NaN ELSE Num(a.v - b.v)
NumAdd(a, b) == IF a.nan \/ b.nan THEN NaN ELSE Num(a.v + b.v)

(***************************************************************************)
(* Optional fields                                                         *)
(***************************************************************************)
Undefined == [t |-> "undefined", s |-> <<>>, n |-> 0]
Str(s) == [t |-> "string", s |-> s, n |-> 0]
Number(n) == [t |-> "number", s |-> <<>>, n |-> n]

RECURSIVE IntToString(_)
IntToString(k) ==
    IF k < 10 THEN <<Digits[k + 1]>>
    ELSE IntToString(k \div 10) \o <<Digits[(k % 10) + 1]>>

\* Number.prototype.toString for a number of hundredths
NumberToString(n) ==
    LET abs  == IF n < 0 THEN -n ELSE n
        frac == abs % 100
        sign == IF n < 0 THEN <<"-">> ELSE <<>>
        tail == IF frac = 0 THEN <<>>
                ELSE IF frac % 10 = 0 THEN <<".", Digits[(frac \div 10) + 1]>>
                ELSE <<".", Digits[(frac \div 10) + 1], Digits[(frac % 10) + 1]>>
    IN  sign \o IntToString(abs \div 100) \o tail

\* x.toString() for a present field
toString(x) == IF x.t = "number" THEN NumberToString(x.n) ELSE x.s

RECURSIVE SkipWhiteSpace(_, _)
SkipWhiteSpace(s, i) ==
    IF i <= Len(s) /\ s[i] = " " THEN SkipWhiteSpace(s, i + 1) ELSE i

RECURSIVE DigitsEnd(_, _)
DigitsEnd(s, i) ==
    IF i <= Len(s) /\ IsDigit(s[i]) THEN DigitsEnd(s, i + 1) ELSE i

RECURSIVE DigitsValue(_, _, _)
DigitsValue(s, i, j) ==
    IF i >= j THEN 0 ELSE DigitsValue(s, i, j - 1) * 10 + DigitVal(s[j - 1])

\* parseFloat: leading white space, an optional sign, the longest decimal
\* literal; NaN when no digit is found.  The result keeps two decimals.
parseFloat(s) ==
    LET start   == SkipWhiteSpace(s, 1)
        signed  == start <= Len(s) /\ s[start] \in {"+", "-"}
        negate  == start <= Len(s) /\ s[start] = "-"
        intFrom == IF signed THEN start + 1 ELSE start
        intTo   == DigitsEnd(s, intFrom)
        hasDot  == intTo <= Len(s) /\ s[intTo] = "."
        fracTo  == IF hasDot THEN DigitsEnd(s, intTo + 1) ELSE intTo
        nFrac   == IF hasDot THEN fracTo - (intTo + 1) ELSE 0
        intVal  == DigitsValue(s, intFrom, intTo)
        fracVal == IF nFrac = 0 THEN 0
                   ELSE IF nFrac = 1 THEN 10 * DigitVal(s[intTo + 1])
                   ELSE 10 * DigitVal(s[intTo + 1]) + DigitVal(s[intTo + 2])
        mag     == intVal * 100 + fracVal
    IN  IF intTo = intFrom /\ nFrac = 0 THEN NaN
        ELSE Num(IF negate THEN -mag ELSE mag)

\* parseFloat(x?.toString() || '0')
parseFloatOrZeroText(x) ==
    IF x.t = "undefined" \/ toString(x) = <<>>
    THEN parseFloat(<<"0">>)
    ELSE parseFloat(toString(x))

\* x || 0 for an optional number (price_change_24h)
numberOrZero(x) ==
    IF x.t = "number" /\ x.n # 0 THEN Num(x.n) ELSE Num(0)

\* An || that prefers its right operand
OrElseRightFirst(x, y) == IF y.t = "string" /\ y.s # <<>> THEN y ELSE x

\* x || y for optional strings: the empty string is falsy
OrElse(x, y) == IF x.t = "string" /\ x.s # <<>> THEN x ELSE y


(***************************************************************************)
(* Chain normalizer                                                        *)
(***************************************************************************)
Gray == "#666"

\* chain?.toUpperCase(): undefined for an absent chain
chainUpperOf(chain) ==
    IF chain.t = "undefined" THEN Undefined ELSE Str(toUpperCase(chain.s))

\* A color table that knows the short forms only
getChainColorShortForms(chain) ==
    LET chainUpper == chainUpperOf(chain)
    IN  IF chainUpper.t = "undefined" THEN Gray
        ELSE IF chainUpper.s = <<"E","T","H">> THEN "#627EEA"
        ELSE IF chainUpper.s = <<"M","A","T","I","C">> THEN "#8247E5"
        ELSE IF chainUpper.s = <<"B","S","C">> THEN "#F3BA2F"
        ELSE IF chainUpper.s = <<"A","R","B">> THEN "#28A0F0"
        ELSE IF chainUpper.s = <<"O","P">> THEN "#FF0420"
        ELSE IF chainUpper.s = <<"A","V","A","X">> THEN "#E84142"
        ELSE IF chainUpper.s = <<"S","O","L">> THEN "#9945FF"
        ELSE IF chainUpper.s = <<"S","U","I">> THEN "#6FBCF0"
        ELSE IF chainUpper.s = <<"B","A","S","E">> THEN "#0052FF"
        ELSE IF chainUpper.s = <<"F","T","M">> THEN "#1969FF"
        ELSE IF chainUpper.s = <<"E","V","M">> THEN "#8B5CF6"
        ELSE Gray

getChainColor(chain) ==
    LET chainUpper == chainUpperOf(chain)
    IN  IF chainUpper.t = "undefined" THEN Gray
        ELSE IF chainUpper.s \in {<<"E","T","H","E","R","E","U","M">>, <<"E","T","H">>} THEN "#627EEA"
        ELSE IF chainUpper.s \in {<<"P","O","L","Y","G","O","N">>, <<"M","A","T","I","C">>} THEN "#8247E5"
        ELSE IF chainUpper.s \in {<<"B","S","C">>, <<"B","I","N","A","N","C","E">>} THEN "#F3BA2F"
        ELSE IF chainUpper.s \in {<<"A","R","B","I","T","R","U","M">>, <<"A","R","B">>} THEN "#28A0F0"
        ELSE IF chainUpper.s \in {<<"O","P","T","I","M","I","S","M">>, <<"O","P">>} THEN "#FF0420"
        ELSE IF chainUpper.s \in {<<"A","V","A","L","A","N","C","H","E">>, <<"A","V","A","X">>} THEN "#E84142"
        ELSE IF chainUpper.s \in {<<"S","O","L","A","N","A">>, <<"S","O","L">>} THEN "#9945FF"
        ELSE IF chainUpper.s = <<"S","U","I">> THEN "#6FBCF0"
        ELSE IF chainUpper.s = <<"B","A","S","E">> THEN "#0052FF"
        ELSE IF chainUpper.s \in {<<"F","A","N","T","O","M">>, <<"F","T","M">>} THEN "#1969FF"
        ELSE IF chainUpper.s = <<"E","V","M">> THEN "#8B5CF6"
        ELSE Gray

\* A normalizer whose default branch returns the upper-cased identifier
getChainDisplayNameUpperCase(chain) ==
    LET chainUpper == chainUpperOf(chain)
    IN  IF chainUpper.t = "undefined" THEN <<"U","n","k","n","o","w","n">>
        ELSE IF chainUpper.s = <<"E","V","M">> THEN <<"E","V","M">>
        ELSE IF chainUpper.s = <<"E","T","H">> THEN <<"E","t","h","e","r","e","u","m">>
        ELSE IF chainUpper.s = <<"M","A","T","I","C">> THEN <<"P","o","l","y","g","o","n">>
        ELSE IF chainUpper.s = <<"A","R","B">> THEN <<"A","r","b","i","t","r","u","m">>
        ELSE IF chainUpper.s = <<"O","P">> THEN <<"O","p","t","i","m","i","s","m">>
        ELSE IF chainUpper.s = <<"A","V","A","X">> THEN <<"A","v","a","l","a","n","c","h","e">>
        ELSE IF chainUpper.s = <<"S","O","L">> THEN <<"S","o","l","a","n","a">>
        ELSE IF chainUpper.s = <<"F","T","M">> THEN <<"F","a","n","t","o","m">>
        ELSE IF chain.s = <<>> THEN <<"U","n","k","n","o","w","n">>
        ELSE chainUpper.s

getChainDisplayName(chain) ==
    LET chainUpper == chainUpperOf(chain)
    IN  IF chainUpper.t = "undefined" THEN <<"U","n","k","n","o","w","n">>
        ELSE IF chainUpper.s = <<"E","V","M">> THEN <<"E","V","M">>
        ELSE IF chainUpper.s = <<"E","T","H">> THEN <<"E","t","h","e","r","e","u","m">>
        ELSE IF chainUpper.s = <<"M","A","T","I","C">> THEN <<"P","o","l","y","g","o","n">>
        ELSE IF chainUpper.s = <<"A","R","B">> THEN <<"A","r","b","i","t","r","u","m">>
        ELSE IF chainUpper.s = <<"O","P">> THEN <<"O","p","t","i","m","i","s","m">>
        ELSE IF chainUpper.s = <<"A","V","A","X">> THEN <<"A","v","a","l","a","n","c","h","e">>
        ELSE IF chainUpper.s = <<"S","O","L">> THEN <<"S","o","l","a","n","a">>
        ELSE IF chainUpper.s = <<"F","T","M">> THEN <<"F","a","n","t","o","m">>
        ELSE IF chain.s = <<>> THEN <<"U","n","k","n","o","w","n">>
        ELSE chain.s

(***************************************************************************)
(* Holdings                                                                *)
(***************************************************************************)
Holding(name, symbol, chain, quantity, value, change) ==
    [name |-> name, symbol |-> symbol, chain |-> chain,
     quantity |-> quantity, value |-> value, price_change_24h |-> change]

\* The holdings the parent may hand in.  Values and changes are counted in
\* hundredths: "100.50" parses to 10050, a change of 0.05 is 5.
Holdings ==
    { Holding(Str(<<"B","i","t","c","o","i","n">>), Str(<<"B","T","C">>), Str(<<"M","A","T","I","C">>),
              Str(<<"2">>), Str(<<"1","0","0",".","5","0">>), Number(5)),
      Holding(Str(<<"a","a","v","e">>), Str(<<"A","A","V","E">>), Str(<<"N","O","V","A">>),
              Str(<<"1","0">>), Str(<<"5","0">>), Number(-3)),
      Holding(Str(<<"C","h","a","i","n","l","i","n","k">>), Str(<<"L","I","N","K">>), Str(<<"5","6">>),
              Undefined, Undefined, Undefined),
      Holding(Undefined, Str(<<"b","i","t","c","o","i","n">>), Str(<<"N","o","v","a">>),
              Str(<<"2">>), Number(5000), Number(0)),
      Holding(Str(<<"D","o","g","e">>), Str(<<"D","O","G","E">>), Str(<<"c","o","n","s","t","r","u","c","t","o","r">>),
              Str(<<"1">>), Str(<<"0">>), Number(5)),
      Holding(Str(<<"P","e","p","e">>), Str(<<>>), Str(<<"1","3","7">>),
              Str(<<"a","b","c">>), Str(<<"a","b","c">>), Number(-3)) }

SortOptions == {"value", "balance", "performance", "alphabetical", "chain"}

(***************************************************************************)
(* Sort engine                                                             *)
(***************************************************************************)
\* Keys with the raw chain identifier in place of the display name
SortKeyRawChain(a, option) ==
    CASE option = "value" -> parseFloatOrZeroText(a.value)
      [] option = "balance" -> parseFloatOrZeroText(a.quantity)
      [] option = "performance" -> numberOrZero(a.price_change_24h)
      [] option = "alphabetical" ->
           toLowerCase(OrElse(a.name, OrElse(a.symbol, Str(<<>>))).s)
      [] option = "chain" -> toLowerCase(a.chain.s)
      [] OTHER -> Num(0)

\* The key the comparator derives from one holding (valueA, balanceA,
\* perfA, nameA, chainA): a number for the numeric options, a lower-cased
\* string for the others.
SortKey(a, option) ==
    CASE option = "value" -> parseFloatOrZeroText(a.value)
      [] option = "balance" -> parseFloatOrZeroText(a.quantity)
      [] option = "performance" -> numberOrZero(a.price_change_24h)
      [] option = "alphabetical" ->
           toLowerCase(OrElse(a.name, OrElse(a.symbol, Str(<<>>))).s)
      [] option = "chain" -> toLowerCase(getChainDisplayName(a.chain))
      [] OTHER -> Num(0)

\* The numeric comparisons with their operands exchanged (ascending order)
CompareKeysAscending(keyA, keyB, option) ==
    CASE option \in {"value", "balance", "performance"} -> NumSub(keyA, keyB)
      [] option \in {"alphabetical", "chain"} -> Num(localeCompare(keyA, keyB))
      [] OTHER -> Num(0)

\* What the comparator returns for the keys of a and b: a JavaScript number.
CompareKeys(keyA, keyB, option) ==
    CASE option \in {"value", "balance", "performance"} -> NumSub(keyB, keyA)
      [] option \in {"alphabetical", "chain"} -> Num(localeCompare(keyA, keyB))
      [] OTHER -> Num(0)

\* The comparator handed to Array.prototype.sort
compareFn(a, b, option) ==
    CompareKeys(SortKey(a, option), SortKey(b, option), option)

\* Array.prototype.sort reads the comparator's answer with NaN taken as +0.
SortCompare(v) == IF v.nan THEN 0 ELSE v.v

\* The comparator's answers for every pair of references into S.
CompareMatrix(S, option) ==
    LET keys == [i \in 1..Len(S) |-> SortKey(S[i], option)]
    IN  [i \in 1..Len(S), j \in 1..Len(S) |->
            SortCompare(CompareKeys(keys[i], keys[j], option))]

\* ECMAScript's "consistent comparator" for the n elements compared by c.
ConsistentComparator(n, c) ==
    LET I == 1..n
    IN  /\ \A i \in I : c[i, i] = 0
        /\ \A i, j \in I : c[i, j] = 0 => c[j, i] = 0
        /\ \A i, j, k \in I :
              /\ (c[i, j] = 0 /\ c[j, k] = 0) => c[i, k] = 0
              /\ (c[i, j] < 0 /\ c[j, k] < 0) => c[i, k] < 0
              /\ (c[i, j] > 0 /\ c[j, k] > 0) => c[i, k] > 0

RECURSIVE InsertPosition(_, _, _, _)
InsertPosition(p, k, x, c) ==
    IF k > 0 /\ c[p[k], x] > 0
    THEN InsertPosition(p, k - 1, x, c)
    ELSE k

\* An insertion that overwrites the reference at the insertion point
InsertSortedOverwriting(p, x, c) ==
    LET k == InsertPosition(p, Len(p), x, c)
    IN  SubSeq(p, 1, k) \o <<x>> \o SubSeq(p, k + 2, Len(p))

\* Insert reference x into the sorted references p, behind every reference
\* that does not compare greater.
InsertSorted(p, x, c) ==
    LET k == InsertPosition(p, Len(p), x, c)
    IN  SubSeq(p, 1, k) \o <<x>> \o SubSeq(p, k + 1, Len(p))

RECURSIVE StableSortUpTo(_, _)
StableSortUpTo(n, c) ==
    IF n = 0 THEN <<>>
    ELSE InsertSorted(StableSortUpTo(n - 1, c), n, c)

StableSort(S, option) ==
    CHOOSE p \in {StableSortUpTo(Len(S), c) : c \in {CompareMatrix(S, option)}} : TRUE

PermutationsOf(n) ==
    { p \in [1..n -> 1..n] : \A i, j \in 1..n : p[i] = p[j] => i = j }

\* [...tokens].sort(compareFn): the outcomes the language allows, as sequences
\* of references into S.  With a consistent comparator the sort is stable and
\* its result unique; otherwise the order is implementation-defined.
SortResults(S, option) ==
    UNION { IF ConsistentComparator(Len(S), c)
            THEN {StableSortUpTo(Len(S), c)}
            ELSE PermutationsOf(Len(S))
          : c \in {CompareMatrix(S, option)} }

\* Sorting the caller's array itself: the array ends reordered and is the
\* sorted sequence.
SortInPlace(S, option) ==
    { [array  |-> [k \in 1..Len(S) |-> S[p[k]]],
       sorted |-> [k \in 1..Len(S) |-> k]] : p \in SortResults(S, option) }

\* [...tokens].sort(compareFn): the spread copies the references into a new
\* array and the copy is sorted; array is the caller's array afterwards.
SpreadAndSort(S, option) ==
    { [array |-> S, sorted |-> p] : p \in SortResults(S, option) }

(***************************************************************************)
(* Grouping engine                                                         *)
(***************************************************************************)
\* Properties an object literal {} inherits from Object.prototype: reading
\* grouped[key] for one of them yields a function (or the prototype), which
\* is truthy and has no push method.
ObjectPrototypeKeys ==
    { <<"c","o","n","s","t","r","u","c","t","o","r">>, <<"t","o","S","t","r","i","n","g">>, <<"v","a","l","u","e","O","f">>, <<"t","o","L","o","c","a","l","e","S","t","r","i","n","g">>,
      <<"h","a","s","O","w","n","P","r","o","p","e","r","t","y">>, <<"i","s","P","r","o","t","o","t","y","p","e","O","f">>, <<"p","r","o","p","e","r","t","y","I","s","E","n","u","m","e","r","a","b","l","e">>,
      <<"_","_","p","r","o","t","o","_","_">> }

HasOwnKey(entries, key) == \E i \in 1..Len(entries) : entries[i].key = key

\* An iteration that puts the holding at the front of its group
GroupStepPrepending(grouped, ref, S) ==
    LET chain == getChainDisplayName(S[ref].chain)
    IN  IF grouped.threw THEN grouped
        ELSE IF HasOwnKey(grouped.entries, chain)
        THEN [grouped EXCEPT !.entries =
                 [i \in 1..Len(grouped.entries) |->
                     IF grouped.entries[i].key = chain
                     THEN [grouped.entries[i] EXCEPT !.refs = <<ref>> \o @]
                     ELSE grouped.entries[i]]]
        ELSE IF chain \in ObjectPrototypeKeys
        THEN [grouped EXCEPT !.threw = TRUE]
        ELSE [grouped EXCEPT !.entries =
                 Append(@, [key |-> chain, refs |-> <<ref>>])]

\* One iteration of the forEach: grouped is [entries, threw], entries being
\* the own properties in insertion order.
GroupStep(grouped, ref, S) ==
    LET chain == getChainDisplayName(S[ref].chain)
    IN  IF grouped.threw THEN grouped
        ELSE IF HasOwnKey(grouped.entries, chain)
        THEN [grouped EXCEPT !.entries =
                 [i \in 1..Len(grouped.entries) |->
                     IF grouped.entries[i].key = chain
                     THEN [grouped.entries[i] EXCEPT !.refs = Append(@, ref)]
                     ELSE grouped.entries[i]]]
        ELSE IF chain \in ObjectPrototypeKeys
        THEN [grouped EXCEPT !.threw = TRUE]
        ELSE [grouped EXCEPT !.entries =
                 Append(@, [key |-> chain, refs |-> <<ref>>])]

RECURSIVE GroupUpTo(_, _, _)
GroupUpTo(n, sorted, S) ==
    IF n = 0 THEN [entries |-> <<>>, threw |-> FALSE]
    ELSE GroupStep(GroupUpTo(n - 1, sorted, S), sorted[n], S)

getTokensByBlockchain(sorted, S) == GroupUpTo(Len(sorted), sorted, S)

\* A property key that is a canonical array index
IsArrayIndex(key) ==
    /\ Len(key) > 0
    /\ \A i \in 1..Len(key) : IsDigit(key[i])
    /\ (Len(key) = 1 \/ key[1] # "0")

IndexValue(key) == DigitsValue(key, 1, Len(key) + 1)

RECURSIVE SelectEntries(_, _)
SelectEntries(entries, wantIndex) ==
    IF entries = <<>> THEN <<>>
    ELSE LET rest == SelectEntries(Tail(entries), wantIndex)
         IN  IF IsArrayIndex(Head(entries).key) = wantIndex
             THEN <<Head(entries)>> \o rest
             ELSE rest

RECURSIVE AscendingIndexKeys(_)
AscendingIndexKeys(entries) ==
    IF entries = <<>> THEN <<>>
    ELSE LET m == CHOOSE i \in 1..Len(entries) :
                     \A j \in 1..Len(entries) :
                        IndexValue(entries[i].key) <= IndexValue(entries[j].key)
         IN  <<entries[m]>> \o
             AscendingIndexKeys(SubSeq(entries, 1, m - 1) \o
                                SubSeq(entries, m + 1, Len(entries)))

\* Object.entries: array-index keys in ascending order, then the other keys
\* in insertion order.
ObjectEntries(entries) ==
    AscendingIndexKeys(SelectEntries(entries, TRUE)) \o SelectEntries(entries, FALSE)

RECURSIVE SumValues(_, _, _)
SumValues(refs, n, S) ==
    IF n = 0 THEN Num(0)
    ELSE NumAdd(SumValues(refs, n - 1, S), parseFloatOrZeroText(S[refs[n]].value))

\* The header of one chain section and the holdings listed under it
renderBlockchainSection(item, S) ==
    [blockchain |-> item.key,
     blockchainTokens |-> item.refs,
     totalValue |-> SumValues(item.refs, Len(item.refs), S),
     tokenCount |-> Len(item.refs),
     color |-> getChainColor(Str(item.key))]

(***************************************************************************)
(* Render                                                                  *)
(***************************************************************************)
Screen(view, items, sections) ==
    [view |-> view, items |-> items, sections |-> sections]

Render(S, loadingProp, hasError, option, sorted) ==
    IF loadingProp THEN Screen("loading", <<>>, <<>>)
    ELSE IF hasError THEN Screen("error", <<>>, <<>>)
    ELSE IF Len(S) = 0 THEN Screen("empty", <<>>, <<>>)
    ELSE IF option = "chain"
    THEN LET grouped == getTokensByBlockchain(sorted, S)
             entries == ObjectEntries(grouped.entries)
         IN  IF grouped.threw THEN Screen("crashed", <<>>, <<>>)
             ELSE Screen("sections", <<>>,
                    [i \in 1..Len(entries) |-> renderBlockchainSection(entries[i], S)])
    ELSE Screen("list", sorted, <<>>)

(***************************************************************************)
(* The token card                                                          *)
(***************************************************************************)
\* JavaScript truthiness of an optional field
Truthy(x) ==
    CASE x.t = "undefined" -> FALSE
      [] x.t = "string" -> x.s # <<>>
      [] x.t = "number" -> x.n # 0

Hidden == [kind |-> "hidden", amount |-> Num(0)]

\* What React makes of a falsy left operand of &&: nothing for undefined and
\* the empty string, the number itself as text for 0.
FalsyChild(x) ==
    IF x.t = "number" THEN [kind |-> "text", amount |-> Num(x.n)] ELSE Hidden

\* {x && (<View>...parseFloat(x.toString())...</View>)}: the row is rendered
\* for every truthy field.
ValueBoxUnguarded(x) ==
    IF ~Truthy(x) THEN FalsyChild(x)
    ELSE [kind |-> "row", amount |-> parseFloat(toString(x))]

\* {x && !isNaN(parseFloat(x.toString())) && (<View>...parseFloat(x.toString())...</View>)}
ValueBox(x) ==
    IF ~Truthy(x) THEN FalsyChild(x)
    ELSE IF parseFloat(toString(x)).nan THEN Hidden
    ELSE [kind |-> "row", amount |-> parseFloat(toString(x))]

\* {item.quantity && !isNaN(parseFloat(item.quantity || '0')) && (<View>...)}
BalanceRow(x) ==
    LET text == IF Truthy(x) THEN toString(x) ELSE <<"0">>
    IN  IF ~Truthy(x) THEN FalsyChild(x)
        ELSE IF parseFloat(text).nan THEN Hidden
        ELSE [kind |-> "row", amount |-> parseFloat(text)]

Card(component, price, quantity, value) ==
    [component |-> component, price |-> price, quantity |-> quantity, value |-> value]

NoCard == Card("none", Hidden, Hidden, Hidden)

\* renderToken of PortfolioTokenDisplay: the values grid
renderToken(item) ==
    Card("PortfolioTokenDisplay",
         ValueBox(item.price), ValueBox(item.quantity), ValueBox(item.value))

\* renderToken of TokenDisplay: value in the header, balance and price rows
renderTokenOfTokenDisplay(item) ==
    Card("TokenDisplay",
         ValueBox(item.price), BalanceRow(item.quantity), ValueBox(item.value))

NoItem == [price |-> Undefined, quantity |-> Undefined, value |-> Undefined]

CardNotRendered ==
    /\ cardItem = NoItem
    /\ cardShown = NoCard

(***************************************************************************)
(* The AuthProvider                                                        *)
(***************************************************************************)
MaxCalls == 4

Null == [kind |-> "null", id |-> 0]

\* The bearer token and the user the backend hands out for session id
AuthToken(id) == [kind |-> "string", id |-> id]
UserObject(id) == [kind |-> "object", id |-> id]

JSONstringify(value) == [kind |-> "json", id |-> value.id]
JSONparse(text) == [kind |-> "object", id |-> text.id]

EmptyStorage == [authToken |-> Null, user |-> Null]

\* The session persisted by an earlier run of the app
StoredSession == [authToken |-> AuthToken(0), user |-> JSONstringify(UserObject(0))]

\* One async call: the function, the await it is suspended at, its local
\* token and user, and whether the awaited storage operation succeeded.
Call(fn, pc, localToken, localUser, ok) ==
    [fn |-> fn, pc |-> pc, token |-> localToken, user |-> localUser, ok |-> ok]

Returned(call) == [call EXCEPT !.pc = "returned"]

Request(endpoint, bearer) == [endpoint |-> endpoint, bearer |-> bearer]

isAuthenticated == user # Null /\ token # Null

\* AsyncStorage.multiRemove(['authToken', 'user']): the entries after the
\* operation, which removes both or rejects and removes none.
multiRemove(ok) == IF ok THEN EmptyStorage ELSE storage

\* AsyncStorage.setItem(key, value)
setItem(key, value, ok) == IF ok THEN [storage EXCEPT ![key] = value] ELSE storage

AuthNotMounted ==
    /\ user = Null
    /\ token = Null
    /\ isLoading = TRUE
    /\ storage = EmptyStorage
    /\ calls = <<>>
    /\ requests = <<>>

(***************************************************************************)
(* HomeScreen: the Portfolio Overview                                      *)
(***************************************************************************)
\* x + y on JavaScript values: a sum of two numbers, a concatenation as soon
\* as one operand is a string.
Plus(x, y) ==
    IF x.t = "string" \/ y.t = "string"
    THEN Str(toString(x) \o toString(y))
    ELSE Number(x.n + y.n)

\* token.value || 0
valueOrZero(x) == IF Truthy(x) THEN x ELSE Number(0)

RECURSIVE ReduceTotal(_, _)
ReduceTotal(S, n) ==
    IF n = 0 THEN Number(0)
    ELSE Plus(ReduceTotal(S, n - 1), valueOrZero(S[n].value))

\* tokens.reduce((total, token) => total + (token.value || 0), 0)
getTotalValue(S) == ReduceTotal(S, Len(S))

Overview(S) == [totalValue |-> getTotalValue(S), tokenCount |-> Len(S)]

(***************************************************************************)
(* The data hooks useWalletTracking and useWalletTokens                    *)
(***************************************************************************)
MaxTrackingFetches == 4
MaxWalletTokensFetches == 5
MaxWallets == 2
MaxSessions == 2

\* One HTTP request of a hook: the endpoint, the bearer token of the closure
\* that sent it, the wallet it asks for (useWalletTokens), what caused it,
\* the fetchAllTokens call it belongs to, and its outcome.
Fetch(endpoint, bearer, wallet, cause, batch) ==
    [endpoint |-> endpoint, bearer |-> bearer, wallet |-> wallet, cause |-> cause,
     batch |-> batch, status |-> "pending", response |-> <<>>]

Settle(k, status, response) ==
    [fetches EXCEPT ![k] = [@ EXCEPT !.status = status, !.response = response]]

\* The state of useWalletTracking after useState
TrackingInitial ==
    [trackedWallets |-> <<>>, tokens |-> <<>>, loading |-> FALSE, error |-> FALSE]

\* The state of useWalletTokens after useState
WalletTokensInitial ==
    [wallets |-> <<>>, walletTokens |-> [w \in 1..MaxWallets |-> 0],
     loading |-> FALSE, refreshing |-> FALSE, error |-> FALSE]

\* The wallet lists a wallets request may be answered with
WalletLists == {[w \in 1..n |-> w] : n \in 0..MaxWallets}

\* An interval effect that arms the timer for every session
IntervalArmedForSession(u, t, wallets) == u # Null /\ t # Null

\* The auto-refresh effects: if (!user || !token || wallets.length === 0)
\* return; otherwise the interval is set, and cleared by the cleanup when a
\* dependency changes.
IntervalArmed(u, t, wallets) == u # Null /\ t # Null /\ Len(wallets) > 0

\* fetchAllTokens: one fetchTokensForWallet request per wallet
TokenRequestsFor(wallets, bearer, cause, batch) ==
    [i \in 1..Len(wallets) |-> Fetch("tokens", bearer, wallets[i], cause, batch)]

\* Every request of the fetchAllTokens call has settled (Promise.allSettled)
BatchSettled(fs, batch) ==
    \A j \in 1..Len(fs) :
        (fs[j].endpoint = "tokens" /\ fs[j].batch = batch) => fs[j].status # "pending"

HooksNotMounted ==
    /\ mountedHook = "none"
    /\ useWalletTracking = TrackingInitial
    /\ useWalletTokens = WalletTokensInitial
    /\ fetches = <<>>
    /\ interval = FALSE

(***************************************************************************)
(* The component                                                           *)
(***************************************************************************)
Mounted == screen.view # "crashed"

Init ==
    /\ tokens = <<>>
    /\ loading = FALSE
    /\ error = FALSE
    /\ sortBy = "value"
    /\ sortedTokens = <<>>
    /\ screen = Screen("empty", <<>>, <<>>)
    /\ overview = Overview(<<>>)
    /\ chainInput = Undefined
    /\ chainOutput = [asked |-> FALSE, name |-> <<>>, color |-> "", headerColor |-> ""]
    /\ CardNotRendered
    /\ AuthNotMounted
    /\ HooksNotMounted

\* The lists the parent hands in next: the current list extended by one
\* holding, or the empty list.
NextTokenLists ==
    {<<>>} \cup
    (IF Len(tokens) < MaxTokens THEN {Append(tokens, h) : h \in Holdings} ELSE {})

\* A memo with the dependency list [tokens]: a new sort option alone does
\* not recompute it.
useMemoTokensOnly(S, option) ==
    IF S # tokens
    THEN SpreadAndSort(S, option)
    ELSE {[array |-> S, sorted |-> sortedTokens]}

\* useMemo(() => [...tokens].sort(...), [tokens, sortBy]) in a render with the
\* props S and the sort option: recomputed when a dependency differs from the
\* previous render's, the memoised sequence otherwise.
useMemo(S, option) ==
    IF S # tokens \/ option # sortBy
    THEN SpreadAndSort(S, option)
    ELSE {[array |-> S, sorted |-> sortedTokens]}

\* One render of the component with the given props and state
RenderComponent(S, loadingProp, hasError, option) ==
    \E r \in useMemo(S, option) :
        /\ tokens' = r.array
        /\ loading' = loadingProp
        /\ error' = hasError
        /\ sortBy' = option
        /\ sortedTokens' = r.sorted
        /\ screen' = Render(r.array, loadingProp, hasError, option, r.sorted)
        /\ overview' = Overview(r.array)

\* The parent re-renders with a new token list: the memo is recomputed.
ReceiveTokens(newTokens) ==
    /\ Mounted
    /\ newTokens # tokens
    /\ RenderComponent(newTokens, loading, error, sortBy)
    /\ UNCHANGED <<normalizerVars, cardVars, authVars, hookVars>>

\* The parent re-renders with another loading flag: the memo is kept.
SetLoading(flag) ==
    /\ Mounted
    /\ flag # loading
    /\ RenderComponent(tokens, flag, error, sortBy)
    /\ UNCHANGED <<normalizerVars, cardVars, authVars, hookVars>>

\* The parent re-renders with another error: the memo is kept.
SetError(flag) ==
    /\ Mounted
    /\ flag # error
    /\ RenderComponent(tokens, loading, flag, sortBy)
    /\ UNCHANGED <<normalizerVars, cardVars, authVars, hookVars>>

\* A sort button is pressed: the buttons exist only on the list and the
\* sections screens; setting the current option again does not re-render.
PressSort(option) ==
    /\ screen.view \in {"list", "sections"}
    /\ option # sortBy
    /\ RenderComponent(tokens, loading, error, option)
    /\ UNCHANGED <<normalizerVars, cardVars, authVars, hookVars>>

Next ==
    \/ \E newTokens \in NextTokenLists : ReceiveTokens(newTokens)
    \/ \E flag \in BOOLEAN : SetLoading(flag)
    \/ \E flag \in BOOLEAN : SetError(flag)
    \/ \E option \in SortOptions : PressSort(option)

Spec == Init /\ [][Next]_vars

(***************************************************************************)
(* The chain normalizer on its own: a raw identifier is handed in and the  *)
(* display name and the color are computed for it.                         *)
(***************************************************************************)
\* The identifiers the color table knows (the case labels of getChainColor)
KnownAliases ==
    { <<"E","T","H","E","R","E","U","M">>, <<"E","T","H">>, <<"P","O","L","Y","G","O","N">>, <<"M","A","T","I","C">>, <<"B","S","C">>, <<"B","I","N","A","N","C","E">>,
      <<"A","R","B","I","T","R","U","M">>, <<"A","R","B">>, <<"O","P","T","I","M","I","S","M">>, <<"O","P">>, <<"A","V","A","L","A","N","C","H","E">>, <<"A","V","A","X">>,
      <<"S","O","L","A","N","A">>, <<"S","O","L">>, <<"S","U","I">>, <<"B","A","S","E">>, <<"F","A","N","T","O","M">>, <<"F","T","M">>, <<"E","V","M">> }

Capitalize(s) ==
    [i \in 1..Len(s) |-> IF i = 1 THEN toUpperCaseChar(s[i]) ELSE toLowerCaseChar(s[i])]

\* Raw identifiers as the backend may send them: every known alias in upper
\* case, lower case and capitalized, unknown identifiers, the empty string
\* and no identifier at all.
RawChains ==
    {Str(a) : a \in KnownAliases}
      \cup {Str(toLowerCase(a)) : a \in KnownAliases}
      \cup {Str(Capitalize(a)) : a \in KnownAliases}
      \cup {Str(<<"z","k","S","y","n","c">>), Str(<<"c","o","n","s","t","r","u","c","t","o","r">>), Str(<<"1">>), Str(<<>>), Undefined}

NotAsked == [asked |-> FALSE, name |-> <<>>, color |-> "", headerColor |-> ""]

InitNormalizer ==
    /\ tokens = <<>>
    /\ loading = FALSE
    /\ error = FALSE
    /\ sortBy = "value"
    /\ sortedTokens = <<>>
    /\ screen = Screen("empty", <<>>, <<>>)
    /\ overview = Overview(<<>>)
    /\ chainInput \in RawChains
    /\ chainOutput = NotAsked
    /\ CardNotRendered
    /\ AuthNotMounted
    /\ HooksNotMounted

NormalizeChain ==
    /\ ~chainOutput.asked
    /\ chainOutput' = [asked |-> TRUE,
                       name  |-> getChainDisplayName(chainInput),
                       color |-> getChainColor(chainInput),
                       headerColor |->
                           renderBlockchainSection(
                               [key |-> getChainDisplayName(chainInput), refs |-> <<>>],
                               <<>>).color]
    /\ UNCHANGED <<componentVars, chainInput, cardVars, authVars, hookVars>>

NextChain(raw) ==
    /\ chainOutput.asked
    /\ raw # chainInput
    /\ chainInput' = raw
    /\ chainOutput' = NotAsked
    /\ UNCHANGED <<componentVars, cardVars, authVars, hookVars>>

NextNormalizer ==
    \/ NormalizeChain
    \/ \E raw \in RawChains : NextChain(raw)

SpecNormalizer == InitNormalizer /\ [][NextNormalizer]_vars

ComponentInitial ==
    /\ tokens = <<>>
    /\ loading = FALSE
    /\ error = FALSE
    /\ sortBy = "value"
    /\ sortedTokens = <<>>
    /\ screen = Screen("empty", <<>>, <<>>)
    /\ overview = Overview(<<>>)

NormalizerNotAsked ==
    /\ chainInput = Undefined
    /\ chainOutput = NotAsked

(***************************************************************************)
(* The token card on its own: a holding is handed to renderToken of one of *)
(* the two list components.                                                *)
(***************************************************************************)
\* The values a price, quantity or value may arrive with: absent, empty,
\* numeric text, text that is no number, text with a numeric prefix, numbers
FieldValues ==
    { Undefined, Str(<<>>), Str(<<"0">>), Str(<<"a","b","c">>), Str(<<"1","2","a","b","c">>),
      Str(<<"1","0","0",".","5","0">>), Number(0), Number(5000) }

CardItems == [price : FieldValues, quantity : FieldValues, value : FieldValues]

InitCard ==
    /\ ComponentInitial
    /\ NormalizerNotAsked
    /\ AuthNotMounted
    /\ HooksNotMounted
    /\ cardItem \in CardItems
    /\ cardShown = NoCard

RenderPortfolioCard ==
    /\ cardShown = NoCard
    /\ cardShown' = renderToken(cardItem)
    /\ UNCHANGED <<componentVars, normalizerVars, cardItem, authVars, hookVars>>

RenderTokenCard ==
    /\ cardShown = NoCard
    /\ cardShown' = renderTokenOfTokenDisplay(cardItem)
    /\ UNCHANGED <<componentVars, normalizerVars, cardItem, authVars, hookVars>>

NextItem(item) ==
    /\ cardShown # NoCard
    /\ item # cardItem
    /\ cardItem' = item
    /\ cardShown' = NoCard
    /\ UNCHANGED <<componentVars, normalizerVars, authVars, hookVars>>

NextCard ==
    \/ RenderPortfolioCard
    \/ RenderTokenCard
    \/ \E item \in CardItems : NextItem(item)

SpecCard == InitCard /\ [][NextCard]_vars

(***************************************************************************)
(* The AuthProvider on its own: the mount effect, and login, register and  *)
(* logout as the screens allow them.  Every await is a step of its own: a  *)
(* storage operation takes effect when it is issued and the call resumes   *)
(* in a later step.                                                        *)
(***************************************************************************)
\* What AsyncStorage holds when the app starts
PersistedStates ==
    { EmptyStorage, StoredSession, [authToken |-> AuthToken(0), user |-> Null] }

Answers == {"success", "failure", "error"}

InitAuth ==
    /\ ComponentInitial
    /\ NormalizerNotAsked
    /\ CardNotRendered
    /\ HooksNotMounted
    /\ user = Null
    /\ token = Null
    /\ isLoading = TRUE
    /\ storage \in PersistedStates
    /\ calls = <<>>
    /\ requests = <<>>

Resume(c, call) == calls' = [calls EXCEPT ![c] = call]

\* finally { setIsLoading(false) } and the call returns
Finally(c) ==
    /\ isLoading' = FALSE
    /\ Resume(c, Returned(calls[c]))

\* clearAuth is entered: multiRemove is issued and awaited
clearAuth(c, ok) ==
    /\ storage' = multiRemove(ok)
    /\ Resume(c, [calls[c] EXCEPT !.pc = "multiRemove", !.ok = ok])

\* useEffect(() => { loadStoredAuth(); }, []): getItem('authToken') is issued
loadStoredAuth(ok) ==
    /\ calls = <<>>
    /\ calls' = <<Call("loadStoredAuth", "getItem authToken",
                       IF ok THEN storage.authToken ELSE Null, Null, ok)>>
    /\ UNCHANGED <<user, token, isLoading, storage, requests>>
    /\ UNCHANGED <<componentVars, normalizerVars, cardVars, hookVars>>

\* getItem('authToken') has answered: getItem('user') is issued, or the read
\* was rejected and the call ends in the outer catch.
LoadGotToken(ok) ==
    /\ calls # <<>>
    /\ calls[1].pc = "getItem authToken"
    /\ IF calls[1].ok
       THEN /\ Resume(1, [calls[1] EXCEPT !.pc = "getItem user",
                                          !.user = IF ok THEN storage.user ELSE Null,
                                          !.ok = ok])
            /\ UNCHANGED isLoading
       ELSE Finally(1)
    /\ UNCHANGED <<user, token, storage, requests>>
    /\ UNCHANGED <<componentVars, normalizerVars, cardVars, hookVars>>

\* getItem('user') has answered: with both entries the session is restored
\* and the verify request is sent.
LoadGotUser ==
    /\ calls # <<>>
    /\ calls[1].pc = "getItem user"
    /\ IF calls[1].ok /\ calls[1].token # Null /\ calls[1].user # Null
       THEN /\ token' = calls[1].token
            /\ user' = JSONparse(calls[1].user)
            /\ requests' = Append(requests, Request("VERIFY", calls[1].token))
            /\ Resume(1, [calls[1] EXCEPT !.pc = "verify"])
            /\ UNCHANGED isLoading
       ELSE /\ Finally(1)
            /\ UNCHANGED <<user, token, requests>>
    /\ UNCHANGED storage
    /\ UNCHANGED <<componentVars, normalizerVars, cardVars, hookVars>>

\* The verify request has answered
LoadVerified(answer, ok) ==
    /\ calls # <<>>
    /\ calls[1].pc = "verify"
    /\ IF answer = "success"
       THEN /\ Finally(1)
            /\ UNCHANGED storage
       ELSE /\ clearAuth(1, ok)
            /\ UNCHANGED isLoading
    /\ UNCHANGED <<user, token, requests>>
    /\ UNCHANGED <<componentVars, normalizerVars, cardVars, hookVars>>

\* multiRemove has answered inside clearAuth, called by loadStoredAuth or by
\* logout: after a removal token and user are set to null, a rejection is
\* logged; the caller then runs its finally block.
ClearAuthReturns(c) ==
    /\ calls[c].pc = "multiRemove"
    /\ IF calls[c].ok
       THEN /\ token' = Null
            /\ user' = Null
       ELSE UNCHANGED <<user, token>>
    /\ Finally(c)
    /\ UNCHANGED <<storage, requests>>
    /\ UNCHANGED <<componentVars, normalizerVars, cardVars, hookVars>>

\* The login form is submitted: the button is enabled while isLoading is
\* false, and the login screen is left as soon as the user is authenticated.
login ==
    /\ calls # <<>>
    /\ Len(calls) < MaxCalls
    /\ ~isLoading
    /\ ~isAuthenticated
    /\ isLoading' = TRUE
    /\ requests' = Append(requests, Request("LOGIN", Null))
    /\ calls' = Append(calls, Call("login", "post", Null, Null, TRUE))
    /\ UNCHANGED <<user, token, storage>>
    /\ UNCHANGED <<componentVars, normalizerVars, cardVars, hookVars>>

\* A login that removes the persisted entries when it is refused
LoginAnsweredClearing(c, answer, ok) ==
    /\ calls[c].fn = "login"
    /\ calls[c].pc = "post"
    /\ IF answer = "success"
       THEN /\ storage' = setItem("authToken", AuthToken(c), ok)
            /\ Resume(c, Call("login", "setItem authToken", AuthToken(c), UserObject(c), ok))
            /\ UNCHANGED isLoading
       ELSE /\ Finally(c)
            /\ storage' = EmptyStorage
    /\ UNCHANGED <<user, token, requests>>
    /\ UNCHANGED <<componentVars, normalizerVars, cardVars, hookVars>>

\* The login request has answered: on success setItem('authToken') is issued
LoginAnswered(c, answer, ok) ==
    /\ calls[c].fn = "login"
    /\ calls[c].pc = "post"
    /\ IF answer = "success"
       THEN /\ storage' = setItem("authToken", AuthToken(c), ok)
            /\ Resume(c, Call("login", "setItem authToken", AuthToken(c), UserObject(c), ok))
            /\ UNCHANGED isLoading
       ELSE /\ Finally(c)
            /\ UNCHANGED storage
    /\ UNCHANGED <<user, token, requests>>
    /\ UNCHANGED <<componentVars, normalizerVars, cardVars, hookVars>>

\* setItem('authToken') has answered: setItem('user') is issued
LoginStoredToken(c, ok) ==
    /\ calls[c].fn = "login"
    /\ calls[c].pc = "setItem authToken"
    /\ IF calls[c].ok
       THEN /\ storage' = setItem("user", JSONstringify(calls[c].user), ok)
            /\ Resume(c, [calls[c] EXCEPT !.pc = "setItem user", !.ok = ok])
            /\ UNCHANGED isLoading
       ELSE /\ Finally(c)
            /\ UNCHANGED storage
    /\ UNCHANGED <<user, token, requests>>
    /\ UNCHANGED <<componentVars, normalizerVars, cardVars, hookVars>>

\* setItem('user') has answered: token and user are set
LoginStoredUser(c) ==
    /\ calls[c].fn = "login"
    /\ calls[c].pc = "setItem user"
    /\ IF calls[c].ok
       THEN /\ token' = calls[c].token
            /\ user' = calls[c].user
       ELSE UNCHANGED <<user, token>>
    /\ Finally(c)
    /\ UNCHANGED <<storage, requests>>
    /\ UNCHANGED <<componentVars, normalizerVars, cardVars, hookVars>>

\* The registration form is submitted
register ==
    /\ calls # <<>>
    /\ Len(calls) < MaxCalls
    /\ ~isLoading
    /\ ~isAuthenticated
    /\ isLoading' = TRUE
    /\ requests' = Append(requests, Request("REGISTER", Null))
    /\ calls' = Append(calls, Call("register", "post", Null, Null, TRUE))
    /\ UNCHANGED <<user, token, storage>>
    /\ UNCHANGED <<componentVars, normalizerVars, cardVars, hookVars>>

\* The register request has answered, with whatever outcome
RegisterAnswered(c) ==
    /\ calls[c].fn = "register"
    /\ calls[c].pc = "post"
    /\ Finally(c)
    /\ UNCHANGED <<user, token, storage, requests>>
    /\ UNCHANGED <<componentVars, normalizerVars, cardVars, hookVars>>

\* The logout button of an authenticated screen is pressed: with a token the
\* logout request is sent.
logout ==
    /\ calls # <<>>
    /\ Len(calls) < MaxCalls
    /\ isAuthenticated
    /\ isLoading' = TRUE
    /\ requests' = Append(requests, Request("LOGOUT", token))
    /\ calls' = Append(calls, Call("logout", "post", token, Null, TRUE))
    /\ UNCHANGED <<user, token, storage>>
    /\ UNCHANGED <<componentVars, normalizerVars, cardVars, hookVars>>

\* The logout request has answered or failed: clearAuth is called either way
LogoutAnswered(c, ok) ==
    /\ calls[c].fn = "logout"
    /\ calls[c].pc = "post"
    /\ clearAuth(c, ok)
    /\ UNCHANGED <<user, token, isLoading, requests>>
    /\ UNCHANGED <<componentVars, normalizerVars, cardVars, hookVars>>

NextAuth ==
    \/ \E ok \in BOOLEAN : loadStoredAuth(ok)
    \/ \E ok \in BOOLEAN : LoadGotToken(ok)
    \/ LoadGotUser
    \/ \E answer \in Answers, ok \in BOOLEAN : LoadVerified(answer, ok)
    \/ \E c \in 1..Len(calls) : ClearAuthReturns(c)
    \/ login
    \/ \E c \in 1..Len(calls), answer \in Answers, ok \in BOOLEAN : LoginAnswered(c, answer, ok)
    \/ \E c \in 1..Len(calls), ok \in BOOLEAN : LoginStoredToken(c, ok)
    \/ \E c \in 1..Len(calls) : LoginStoredUser(c)
    \/ register
    \/ \E c \in 1..Len(calls) : RegisterAnswered(c)
    \/ logout
    \/ \E c \in 1..Len(calls), ok \in BOOLEAN : LogoutAnswered(c, ok)

SpecAuth == InitAuth /\ [][NextAuth]_vars

(***************************************************************************)
(* The data hooks on their own: one of the two hooks is mounted, the       *)
(* session of the AuthProvider is established and cleared, requests are    *)
(* answered in any order.  A render and the effects it triggers are one    *)
(* step.                                                                   *)
(***************************************************************************)
InitHooks ==
    /\ ComponentInitial
    /\ NormalizerNotAsked
    /\ CardNotRendered
    /\ AuthNotMounted
    /\ mountedHook \in {"useWalletTracking", "useWalletTokens"}
    /\ useWalletTracking = TrackingInitial
    /\ useWalletTokens = WalletTokensInitial
    /\ fetches = <<>>
    /\ interval = FALSE

HookFrame ==
    /\ UNCHANGED <<componentVars, normalizerVars, cardVars>>
    /\ UNCHANGED <<isLoading, storage, calls, requests, mountedHook>>

\* Every login answers with a fresh token: the sessions are numbered in the
\* order in which they are established.
RECURSIVE SessionsUpTo(_)
SessionsUpTo(n) ==
    IF n = 0 THEN 0
    ELSE LET m == SessionsUpTo(n - 1)
             id == fetches[n].bearer.id
         IN  IF id > m THEN id ELSE m

NextSession == SessionsUpTo(Len(fetches)) + 1

Tracking == mountedHook = "useWalletTracking"
WalletTokens == mountedHook = "useWalletTokens"

\* useWalletTracking re-renders with a new user and token: the auto-fetch
\* effect calls fetchTrackedWallets and fetchTokensFromTrackedWallets.
TrackingSessionEstablished(id) ==
    /\ Tracking
    /\ user = Null
    /\ token = Null
    /\ Len(fetches) + 2 <= MaxTrackingFetches
    /\ user' = UserObject(id)
    /\ token' = AuthToken(id)
    /\ useWalletTracking' = [useWalletTracking EXCEPT !.loading = TRUE, !.error = FALSE]
    /\ fetches' = fetches \o << Fetch("wallets", AuthToken(id), 0, "session", 0),
                                Fetch("tokens", AuthToken(id), 0, "session", 0) >>
    /\ interval' = IntervalArmed(user', token', useWalletTracking.trackedWallets)
    /\ UNCHANGED useWalletTokens
    /\ HookFrame

\* useWalletTracking re-renders without user and token: the auto-fetch
\* effect empties both lists, the cleanup clears the interval.
TrackingSessionCleared ==
    /\ Tracking
    /\ user # Null
    /\ user' = Null
    /\ token' = Null
    /\ useWalletTracking' = [useWalletTracking EXCEPT !.trackedWallets = <<>>, !.tokens = <<>>]
    /\ interval' = IntervalArmed(user', token', <<>>)
    /\ UNCHANGED <<useWalletTokens, fetches>>
    /\ HookFrame

\* The wallets request k of useWalletTracking is answered
TrackedWalletsAnswered(k, wallets) ==
    /\ Tracking
    /\ fetches[k].endpoint = "wallets"
    /\ fetches[k].status = "pending"
    /\ useWalletTracking' = [useWalletTracking EXCEPT !.trackedWallets = wallets,
                                                      !.loading = FALSE]
    /\ fetches' = Settle(k, "answered", <<>>)
    /\ interval' = IntervalArmed(user, token, wallets)
    /\ UNCHANGED <<user, token, useWalletTokens>>
    /\ HookFrame

\* The wallets request k of useWalletTracking fails
TrackedWalletsFailed(k) ==
    /\ Tracking
    /\ fetches[k].endpoint = "wallets"
    /\ fetches[k].status = "pending"
    /\ useWalletTracking' = [useWalletTracking EXCEPT !.error = TRUE, !.loading = FALSE]
    /\ fetches' = Settle(k, "failed", <<>>)
    /\ UNCHANGED <<user, token, useWalletTokens, interval>>
    /\ HookFrame

\* The tokens request k of useWalletTracking is answered with its own list,
\* or with no data: setTokens(response.data || []).
TokensAnswered(k, data) ==
    /\ Tracking
    /\ fetches[k].endpoint = "tokens"
    /\ fetches[k].status = "pending"
    /\ useWalletTracking' = [useWalletTracking EXCEPT !.tokens = data, !.loading = FALSE]
    /\ fetches' = Settle(k, "answered", data)
    /\ UNCHANGED <<user, token, useWalletTokens, interval>>
    /\ HookFrame

\* A failed tokens request that also empties the token list
TokensFailedClearing(k) ==
    /\ Tracking
    /\ fetches[k].endpoint = "tokens"
    /\ fetches[k].status = "pending"
    /\ useWalletTracking' = [useWalletTracking EXCEPT !.error = TRUE, !.loading = FALSE,
                                                      !.tokens = <<>>]
    /\ fetches' = Settle(k, "failed", <<>>)
    /\ UNCHANGED <<user, token, useWalletTokens, interval>>
    /\ HookFrame

\* The tokens request k of useWalletTracking fails: the catch sets the error
\* message, the finally block resets loading.
TokensFailed(k) ==
    /\ Tracking
    /\ fetches[k].endpoint = "tokens"
    /\ fetches[k].status = "pending"
    /\ useWalletTracking' = [useWalletTracking EXCEPT !.error = TRUE, !.loading = FALSE]
    /\ fetches' = Settle(k, "failed", <<>>)
    /\ UNCHANGED <<user, token, useWalletTokens, interval>>
    /\ HookFrame

\* fetchTokensFromTrackedWallets called by the interval ("tick") or by
\* refreshTokens of the home screen ("refresh")
FetchTokens(cause) ==
    /\ Tracking
    /\ IF cause = "tick" THEN interval ELSE isAuthenticated
    /\ Len(fetches) < MaxTrackingFetches
    /\ IF isAuthenticated
       THEN /\ useWalletTracking' = [useWalletTracking EXCEPT !.loading = TRUE, !.error = FALSE]
            /\ fetches' = Append(fetches, Fetch("tokens", token, 0, cause, 0))
       ELSE UNCHANGED <<useWalletTracking, fetches>>
    /\ UNCHANGED <<user, token, useWalletTokens, interval>>
    /\ HookFrame

\* fetchTrackedWallets called by the wallets screen (refetch)
FetchTrackedWallets ==
    /\ Tracking
    /\ isAuthenticated
    /\ Len(fetches) < MaxTrackingFetches
    /\ useWalletTracking' = [useWalletTracking EXCEPT !.loading = TRUE, !.error = FALSE]
    /\ fetches' = Append(fetches, Fetch("wallets", token, 0, "refetch", 0))
    /\ UNCHANGED <<user, token, useWalletTokens, interval>>
    /\ HookFrame

\* addTrackedWallet / removeTrackedWallet: the POST or DELETE is sent
ChangeTrackedWallet(method) ==
    /\ Tracking
    /\ isAuthenticated
    /\ Len(fetches) + 2 <= MaxTrackingFetches
    /\ fetches' = Append(fetches, Fetch(method, token, 0, "change", 0))
    /\ UNCHANGED <<user, token, useWalletTracking, useWalletTokens, interval>>
    /\ HookFrame

\* The POST or DELETE k is answered: on success the call goes on with the
\* fetchTrackedWallets of its closure, on failure it throws to the caller.
ChangeAnswered(k, ok) ==
    /\ Tracking
    /\ fetches[k].endpoint \in {"POST", "DELETE"}
    /\ fetches[k].status = "pending"
    /\ IF ok
       THEN /\ useWalletTracking' = [useWalletTracking EXCEPT !.loading = TRUE, !.error = FALSE]
            /\ fetches' = Append(Settle(k, "answered", <<>>),
                                 Fetch("wallets", fetches[k].bearer, 0, "change", 0))
       ELSE /\ fetches' = Settle(k, "failed", <<>>)
            /\ UNCHANGED useWalletTracking
    /\ UNCHANGED <<user, token, useWalletTokens, interval>>
    /\ HookFrame

\* refreshData of useWalletTokens, by the initial-load effect or a button:
\* with a session fetchWallets sends the wallets request; without one it
\* returns undefined and walletsData.length throws into the catch.
refreshData(u, t) ==
    IF u # Null /\ t # Null
    THEN /\ useWalletTokens' = [useWalletTokens EXCEPT !.refreshing = TRUE, !.error = FALSE]
         /\ fetches' = Append(fetches, Fetch("wallets", t, 0, "refreshData", 0))
    ELSE /\ useWalletTokens' = [useWalletTokens EXCEPT !.refreshing = FALSE, !.error = FALSE]
         /\ UNCHANGED fetches

\* useWalletTokens re-renders authenticated: the initial-load effect calls
\* refreshData, the interval effect runs with the wallets it has.
WalletTokensSessionEstablished(id) ==
    /\ WalletTokens
    /\ user = Null
    /\ token = Null
    /\ Len(fetches) < MaxWalletTokensFetches
    /\ user' = UserObject(id)
    /\ token' = AuthToken(id)
    /\ refreshData(user', token')
    /\ interval' = IntervalArmed(user', token', useWalletTokens.wallets)
    /\ UNCHANGED useWalletTracking
    /\ HookFrame

\* useWalletTokens re-renders unauthenticated: the cleanup clears the
\* interval, the state is kept.
WalletTokensSessionCleared ==
    /\ WalletTokens
    /\ user # Null
    /\ user' = Null
    /\ token' = Null
    /\ interval' = IntervalArmed(user', token', useWalletTokens.wallets)
    /\ UNCHANGED <<useWalletTracking, useWalletTokens, fetches>>
    /\ HookFrame

\* A refresh button or pull-to-refresh of TokenDisplay
RefreshData ==
    /\ WalletTokens
    /\ Len(fetches) < MaxWalletTokensFetches
    /\ refreshData(user, token)
    /\ UNCHANGED <<user, token, useWalletTracking, interval>>
    /\ HookFrame

\* The wallets request k of useWalletTokens is answered with success:
\* setWallets, and refreshData goes on with fetchAllTokens(walletsData).
WalletsAnswered(k, wallets) ==
    /\ WalletTokens
    /\ fetches[k].endpoint = "wallets"
    /\ fetches[k].status = "pending"
    /\ Len(fetches) + Len(wallets) <= MaxWalletTokensFetches
    /\ useWalletTokens' =
          IF Len(wallets) > 0
          THEN [useWalletTokens EXCEPT !.wallets = wallets, !.loading = TRUE, !.error = FALSE]
          ELSE [useWalletTokens EXCEPT !.wallets = wallets, !.refreshing = FALSE]
    /\ fetches' = Settle(k, "answered", <<>>)
                    \o TokenRequestsFor(wallets, fetches[k].bearer, "refreshData", k)
    /\ interval' = IntervalArmed(user, token, wallets)
    /\ UNCHANGED <<user, token, useWalletTracking>>
    /\ HookFrame

\* The wallets request k of useWalletTokens answers success=false or fails
WalletsFailed(k) ==
    /\ WalletTokens
    /\ fetches[k].endpoint = "wallets"
    /\ fetches[k].status = "pending"
    /\ useWalletTokens' = [useWalletTokens EXCEPT !.error = TRUE, !.refreshing = FALSE]
    /\ fetches' = Settle(k, "failed", <<>>)
    /\ UNCHANGED <<user, token, useWalletTracking, interval>>
    /\ HookFrame

\* The interval of useWalletTokens fires: fetchAllTokens() for its wallets
WalletTokensTick ==
    /\ WalletTokens
    /\ interval
    /\ Len(fetches) + Len(useWalletTokens.wallets) <= MaxWalletTokensFetches
    /\ useWalletTokens' = [useWalletTokens EXCEPT !.loading = TRUE, !.error = FALSE]
    /\ fetches' = fetches \o TokenRequestsFor(useWalletTokens.wallets, token, "tick",
                                              Len(fetches) + 1)
    /\ UNCHANGED <<user, token, useWalletTracking, interval>>
    /\ HookFrame

\* The tokens request k of useWalletTokens settles: on success the wallet's
\* tokens are merged in; when it is the last of its fetchAllTokens call,
\* loading is reset, and refreshing too when refreshData made the call.
WalletTokensSettled(k, ok) ==
    /\ WalletTokens
    /\ fetches[k].endpoint = "tokens"
    /\ fetches[k].status = "pending"
    /\ fetches' = Settle(k, IF ok THEN "answered" ELSE "failed", <<>>)
    /\ LET merged == IF ok
                     THEN [useWalletTokens.walletTokens EXCEPT ![fetches[k].wallet] = k]
                     ELSE useWalletTokens.walletTokens
           last == BatchSettled(fetches', fetches[k].batch)
       IN  useWalletTokens' =
              [useWalletTokens EXCEPT
                  !.walletTokens = merged,
                  !.loading = IF last THEN FALSE ELSE @,
                  !.refreshing = IF last /\ fetches[k].cause = "refreshData" THEN FALSE ELSE @]
    /\ UNCHANGED <<user, token, useWalletTracking, interval>>
    /\ HookFrame

NextHooks ==
    \/ \E id \in {NextSession} \cap 1..MaxSessions : TrackingSessionEstablished(id)
    \/ TrackingSessionCleared
    \/ \E k \in 1..Len(fetches), wallets \in WalletLists : TrackedWalletsAnswered(k, wallets)
    \/ \E k \in 1..Len(fetches) : TrackedWalletsFailed(k)
    \/ \E k \in 1..Len(fetches) : \E data \in {<<>>, <<k>>} : TokensAnswered(k, data)
    \/ \E k \in 1..Len(fetches) : TokensFailed(k)
    \/ \E cause \in {"tick", "refresh"} : FetchTokens(cause)
    \/ FetchTrackedWallets
    \/ \E method \in {"POST", "DELETE"} : ChangeTrackedWallet(method)
    \/ \E k \in 1..Len(fetches), ok \in BOOLEAN : ChangeAnswered(k, ok)
    \/ \E id \in {NextSession} \cap 1..MaxSessions : WalletTokensSessionEstablished(id)
    \/ WalletTokensSessionCleared
    \/ RefreshData
    \/ \E k \in 1..Len(fetches), wallets \in WalletLists : WalletsAnswered(k, wallets)
    \/ \E k \in 1..Len(fetches) : WalletsFailed(k)
    \/ WalletTokensTick
    \/ \E k \in 1..Len(fetches), ok \in BOOLEAN : WalletTokensSettled(k, ok)

SpecHooks == InitHooks /\ [][NextHooks]_vars

(***************************************************************************)
(* Properties                                                              *)
(***************************************************************************)
NumericOptions == {"value", "balance", "performance"}

\* The field a numeric option sorts by
FieldOf(h, option) ==
    CASE option = "value" -> h.value
      [] option = "balance" -> h.quantity
      [] option = "performance" -> h.price_change_24h

\* The field is absent or a parseable number
Parseable(x) == x.t = "undefined" \/ ~parseFloat(toString(x)).nan

\* The key of a parseable field, an absent field counted as 0
KeyOrZero(x) == IF x.t = "undefined" THEN 0 ELSE parseFloat(toString(x)).v

\* parseOrZero: absent and unparseable fields count as 0
ParseOrZero(x) == IF Parseable(x) THEN KeyOrZero(x) ELSE 0

SortedHolding(k) == tokens[sortedTokens[k]]

SortedSequence == [k \in 1..Len(sortedTokens) |-> SortedHolding(k)]

Occurrences(seq, h) == Cardinality({i \in 1..Len(seq) : seq[i] = h})

\* C1: under every criterion the sorted sequence is a permutation of the
\* input: same length, every input position exactly once, and therefore the
\* same multiset of holdings.
SortIsPermutation ==
    /\ Len(sortedTokens) = Len(tokens)
    /\ \A i \in 1..Len(tokens) :
          Cardinality({k \in 1..Len(sortedTokens) : sortedTokens[k] = i}) = 1
    /\ \A h \in Holdings : Occurrences(SortedSequence, h) = Occurrences(tokens, h)

\* A list of three holdings, two of them the same holding, that the
\* by-name sort has reordered.
WitnessSortReordered ==
    /\ Len(tokens) = 3
    /\ sortBy = "alphabetical"
    /\ screen.view = "list"
    /\ tokens[1] = tokens[3]
    /\ sortedTokens[1] = 2

AllParseable ==
    \A i \in 1..Len(tokens) : Parseable(FieldOf(tokens[i], sortBy))

\* C2: under a numeric criterion, when every key field is absent or a
\* parseable number, the sorted sequence is in non-increasing order of the
\* key, an absent field counting as 0.
NumericSortDescending ==
    (sortBy \in NumericOptions /\ AllParseable) =>
        \A i, j \in 1..Len(sortedTokens) :
            i < j => KeyOrZero(FieldOf(SortedHolding(i), sortBy))
                       >= KeyOrZero(FieldOf(SortedHolding(j), sortBy))

\* Three parseable holdings sorted by value, one without a value and one
\* with the value "0", that the sort has reordered.
WitnessNumericSort ==
    /\ sortBy = "value"
    /\ Len(tokens) = 3
    /\ AllParseable
    /\ tokens[1].value.t = "undefined"
    /\ tokens[2].value = Str(<<"0">>)
    /\ sortedTokens = <<3, 1, 2>>

\* A present value or quantity that does not parse, replaced by "0"
ZeroedField(x) == IF Parseable(x) THEN x ELSE Str(<<"0">>)

Zeroed(S) ==
    [i \in 1..Len(S) |->
        [S[i] EXCEPT !.value = ZeroedField(@), !.quantity = ZeroedField(@)]]

RECURSIVE SumOrZero(_, _)
SumOrZero(refs, n) ==
    IF n = 0 THEN 0 ELSE SumOrZero(refs, n - 1) + ParseOrZero(tokens[refs[n]].value)

\* C3: a value or quantity that is present but does not parse is treated as
\* 0: the sort orders the list as it would with the field replaced by "0",
\* and every section subtotal adds 0 for it.
UnparseableCountsAsZero ==
    /\ sortBy \in {"value", "balance"} =>
          sortedTokens \in SortResults(Zeroed(tokens), sortBy)
    /\ screen.view = "sections" =>
          \A k \in 1..Len(screen.sections) :
              screen.sections[k].totalValue =
                  Num(SumOrZero(screen.sections[k].blockchainTokens,
                                Len(screen.sections[k].blockchainTokens)))

\* The sort key of the contract: parseOrZero of the field for the numeric
\* criteria, the lower-cased string for the others.
ContractKey(h, option) ==
    IF option \in NumericOptions
    THEN ParseOrZero(FieldOf(h, option))
    ELSE SortKey(h, option)

AliasTable ==
    { <<<<"E","T","H">>, <<"E","t","h","e","r","e","u","m">>>>, <<<<"E","T","H","E","R","E","U","M">>, <<"E","t","h","e","r","e","u","m">>>>,
      <<<<"M","A","T","I","C">>, <<"P","o","l","y","g","o","n">>>>, <<<<"P","O","L","Y","G","O","N">>, <<"P","o","l","y","g","o","n">>>>,
      <<<<"A","R","B">>, <<"A","r","b","i","t","r","u","m">>>>, <<<<"A","R","B","I","T","R","U","M">>, <<"A","r","b","i","t","r","u","m">>>>,
      <<<<"O","P">>, <<"O","p","t","i","m","i","s","m">>>>, <<<<"O","P","T","I","M","I","S","M">>, <<"O","p","t","i","m","i","s","m">>>>,
      <<<<"A","V","A","X">>, <<"A","v","a","l","a","n","c","h","e">>>>, <<<<"A","V","A","L","A","N","C","H","E">>, <<"A","v","a","l","a","n","c","h","e">>>>,
      <<<<"S","O","L">>, <<"S","o","l","a","n","a">>>>, <<<<"S","O","L","A","N","A">>, <<"S","o","l","a","n","a">>>>,
      <<<<"S","U","I">>, <<"S","u","i">>>>, <<<<"B","A","S","E">>, <<"B","a","s","e">>>>,
      <<<<"F","T","M">>, <<"F","a","n","t","o","m">>>>, <<<<"F","A","N","T","O","M">>, <<"F","a","n","t","o","m">>>>,
      <<<<"E","V","M">>, <<"E","V","M">>>> }

\* C5: the normalizer maps every alias of the table, short or long form, to
\* the canonical display name.
AliasesMapToCanonicalNames ==
    \A entry \in AliasTable :
        (chainOutput.asked /\ chainInput = Str(entry[1]))
            => chainOutput.name = entry[2]

\* C6: normalization is case-insensitive for every known alias: an
\* identifier that names a known chain gets the display name and the color
\* of its upper-case spelling.
NormalizationIgnoresCase ==
    (chainOutput.asked /\ chainInput.t = "string"
       /\ toUpperCase(chainInput.s) \in KnownAliases)
        => /\ chainOutput.name = getChainDisplayName(Str(toUpperCase(chainInput.s)))
           /\ chainOutput.color = getChainColor(Str(toUpperCase(chainInput.s)))

\* The places (section, position) at which reference ref is listed
PlacesOf(ref) ==
    { <<k, m>> \in (1..Len(screen.sections)) \X (1..Len(tokens)) :
        /\ m <= Len(screen.sections[k].blockchainTokens)
        /\ screen.sections[k].blockchainTokens[m] = ref }

RECURSIVE SumCounts(_)
SumCounts(n) ==
    IF n = 0 THEN 0 ELSE SumCounts(n - 1) + screen.sections[n].tokenCount

\* C7: grouping the sorted sequence partitions it: every holding is listed
\* in exactly one group, that group is keyed by the holding's display name,
\* and the group counts add up to the length of the input.
GroupingPartitions ==
    (sortBy = "chain" /\ ~loading /\ ~error /\ Len(tokens) > 0) =>
        /\ screen.view = "sections"
        /\ \A ref \in 1..Len(tokens) :
              /\ Cardinality(PlacesOf(ref)) = 1
              /\ \A place \in PlacesOf(ref) :
                    screen.sections[place[1]].blockchain =
                        getChainDisplayName(tokens[ref].chain)
        /\ SumCounts(Len(screen.sections)) = Len(tokens)

\* C8: every section shows the sum of parseOrZero(value) over its holdings
\* and the number of its holdings.
SectionSubtotalAndCount ==
    screen.view = "sections" =>
        \A k \in 1..Len(screen.sections) :
            LET section == screen.sections[k]
            IN  /\ section.totalValue =
                      Num(SumOrZero(section.blockchainTokens, Len(section.blockchainTokens)))
                /\ section.tokenCount = Len(section.blockchainTokens)

\* C9: sort, group and normalize are total: no list of holdings makes a
\* render raise an error.
RenderNeverThrows == screen.view # "crashed"

PositionIn(seq, ref) == CHOOSE k \in 1..Len(seq) : seq[k] = ref

\* C11: sorting and grouping leave their input alone: whatever the
\* component does, the caller's token sequence holds the same holdings in the
\* same order afterwards; it changes only when the parent hands in a new one.
SortAndGroupKeepInput ==
    [][tokens' = tokens \/ tokens' \in NextTokenLists]_vars

\* Three holdings the by-chain sort has reordered and the grouping has put
\* into sections, the caller's list still starting with the first two.
WitnessInputKept ==
    /\ sortBy = "chain"
    /\ screen.view = "sections"
    /\ Len(tokens) = 3
    /\ sortedTokens = <<3, 2, 1>>
    /\ tokens[1].name = Str(<<"B","i","t","c","o","i","n">>)
    /\ tokens[2].name = Str(<<"a","a","v","e">>)

\* C12: grouping is a stable partition: within every chain group the
\* holdings stand in the relative order they have in the sorted sequence.
GroupingKeepsSortedOrder ==
    screen.view = "sections" =>
        \A k \in 1..Len(screen.sections) :
            LET group == screen.sections[k].blockchainTokens
            IN  \A m, n \in 1..Len(group) :
                    m < n => PositionIn(sortedTokens, group[m])
                               < PositionIn(sortedTokens, group[n])

\* A section of two holdings behind a section the sort has moved to the front
WitnessGroupOfTwo ==
    /\ screen.view = "sections"
    /\ Len(screen.sections) = 2
    /\ sortedTokens = <<2, 1, 3>>
    /\ screen.sections[2].blockchainTokens = <<1, 3>>

\* The place in the sorted sequence where display name key occurs first
FirstOccurrence(key) ==
    CHOOSE k \in 1..Len(sortedTokens) :
        /\ getChainDisplayName(SortedHolding(k).chain) = key
        /\ \A j \in 1..(k - 1) : getChainDisplayName(SortedHolding(j).chain) # key

\* C13: the sections are shown in the order in which their display names
\* occur first in the sorted sequence, whatever the display names are.
GroupOrderIsFirstOccurrence ==
    screen.view = "sections" =>
        \A i, j \in 1..Len(screen.sections) :
            i < j => FirstOccurrence(screen.sections[i].blockchain)
                       < FirstOccurrence(screen.sections[j].blockchain)

\* C14: an identifier no table knows gets itself as display name, the empty
\* and the absent identifier get "Unknown", and all of them get the gray.
UnknownChainFallsBack ==
    (chainOutput.asked /\ chainUpperOf(chainInput).s \notin KnownAliases) =>
        /\ chainOutput.name =
              IF chainInput.t = "undefined" \/ chainInput.s = <<>>
              THEN <<"U","n","k","n","o","w","n">>
              ELSE chainInput.s
        /\ chainOutput.color = "#666"

\* The normalizer has answered for zkSync
WitnessUnknownChain ==
    /\ chainOutput.asked
    /\ chainInput = Str(<<"z","k","S","y","n","c">>)
    /\ chainOutput.name = <<"z","k","S","y","n","c">>

\* The by-name key of the contract: the name if present, else the symbol if
\* present, else the empty string, lower-cased
NameKey(h) ==
    toLowerCase(IF h.name.t = "string" /\ h.name.s # <<>> THEN h.name.s
                ELSE IF h.symbol.t = "string" /\ h.symbol.s # <<>> THEN h.symbol.s
                ELSE <<>>)

\* C15: the by-name criterion yields ascending order of the lower-cased key.
SortByNameAscending ==
    sortBy = "alphabetical" =>
        \A i, j \in 1..Len(sortedTokens) :
            i < j => localeCompare(NameKey(SortedHolding(i)), NameKey(SortedHolding(j))) <= 0

\* Bitcoin, aave, Chainlink shown as aave, Bitcoin, Chainlink
WitnessSortByName ==
    /\ sortBy = "alphabetical"
    /\ Len(tokens) = 3
    /\ tokens[1].name = Str(<<"B","i","t","c","o","i","n">>)
    /\ tokens[2].name = Str(<<"a","a","v","e">>)
    /\ tokens[3].name = Str(<<"C","h","a","i","n","l","i","n","k">>)
    /\ screen.view = "list"
    /\ screen.items = <<2, 1, 3>>

\* C16: the by-chain criterion yields ascending order of the lower-cased
\* display name the normalizer gives, not of the raw identifier.
SortByChainAscending ==
    sortBy = "chain" =>
        \A i, j \in 1..Len(sortedTokens) :
            i < j => localeCompare(toLowerCase(getChainDisplayName(SortedHolding(i).chain)),
                                   toLowerCase(getChainDisplayName(SortedHolding(j).chain))) <= 0

\* MATIC before Nova in the input, Nova before Polygon on the screen
WitnessSortByChain ==
    /\ sortBy = "chain"
    /\ Len(tokens) = 2
    /\ tokens[1].chain = Str(<<"M","A","T","I","C">>)
    /\ tokens[2].chain = Str(<<"N","o","v","a">>)
    /\ sortedTokens = <<2, 1>>
    /\ screen.view = "sections"

CardFields == {"price", "quantity", "value"}

\* The field is present and parses as a number
FieldParses(x) == x.t # "undefined" /\ ~parseFloat(toString(x)).nan

\* C17: in a rendered token card the price, the quantity and the value are
\* each shown only when the field is present and parses as a number, and then
\* as the parsed number; a field that fails to parse is not shown at all.
OnlyParseableFieldsShown ==
    cardShown.component # "none" =>
        \A f \in CardFields :
            IF FieldParses(cardItem[f])
            THEN cardShown[f].kind # "hidden" =>
                     cardShown[f].amount = parseFloat(toString(cardItem[f]))
            ELSE cardShown[f] = Hidden

\* A card with the value "abc" left out and the price "100.50" shown
WitnessUnparseableHidden ==
    /\ cardShown.component = "PortfolioTokenDisplay"
    /\ cardItem.value = Str(<<"a","b","c">>)
    /\ cardItem.price = Str(<<"1","0","0",".","5","0">>)
    /\ cardShown.value = Hidden
    /\ cardShown.price = [kind |-> "row", amount |-> Num(10050)]

\* C18: after any sequence of new token lists and sort option changes the
\* sequence shown, and the grouping made of it, is the sort of the current
\* list under the current option.
ShownIsSortOfCurrent ==
    /\ sortedTokens \in SortResults(tokens, sortBy)
    /\ screen = Render(tokens, loading, error, sortBy, sortedTokens)

\* The option was changed to performance and the list grown to two holdings,
\* which are shown in the order of the new option.
WitnessNothingStale ==
    /\ sortBy = "performance"
    /\ Len(tokens) = 2
    /\ screen.view = "list"
    /\ screen.items = <<2, 1>>
    /\ tokens[1].price_change_24h = Number(-3)
    /\ tokens[2].price_change_24h = Number(5)

VerifyRequests == {k \in 1..Len(requests) : requests[k].endpoint = "VERIFY"}

\* loadStoredAuth resumes with the persisted token and user it has read
ReadsStoredSession ==
    /\ calls # <<>>
    /\ calls[1].pc = "getItem user"
    /\ calls'[1].pc # "getItem user"
    /\ calls[1].ok
    /\ calls[1].token # Null
    /\ calls[1].user # Null

\* loadStoredAuth returns after a verify request that failed
ReturnsAfterFailedVerify ==
    /\ calls # <<>>
    /\ calls[1].pc = "multiRemove"
    /\ calls'[1].pc = "returned"

\* C19: at startup, with a persisted token and a persisted user, the session
\* is restored and one verify request is sent with that token; when the
\* request fails or answers success=false, loadStoredAuth returns with the
\* persisted entries removed and token and user null.
StartupVerification ==
    [][ /\ ReadsStoredSession =>
              /\ token' = calls[1].token
              /\ user' = JSONparse(calls[1].user)
              /\ requests' = Append(requests, Request("VERIFY", calls[1].token))
        /\ Cardinality(VerifyRequests) <= 1
        /\ ReturnsAfterFailedVerify =>
              /\ token' = Null
              /\ user' = Null
              /\ storage' = EmptyStorage ]_vars

\* C20: when a logout call returns, token and user are null and the entries
\* authToken and user are removed, whatever the logout request answered.
LogoutClearsSession ==
    [][ \A c \in 1..Len(calls) :
            (calls[c].fn = "logout" /\ calls[c].pc # "returned" /\ calls'[c].pc = "returned")
                => /\ token' = Null
                   /\ user' = Null
                   /\ storage' = EmptyStorage ]_vars

\* The display name of the holding at place k of the sorted sequence
SortedChainName(k) == getChainDisplayName(SortedHolding(k).chain)

\* C28: under the by-chain criterion the holdings of each chain group are
\* contiguous in the sorted sequence: no holding of another group stands
\* between two holdings of one group.
GroupsAreContiguous ==
    sortBy = "chain" =>
        \A i, j, k \in 1..Len(sortedTokens) :
            (i < j /\ j < k /\ SortedChainName(i) = SortedChainName(k))
                => SortedChainName(j) = SortedChainName(i)

RECURSIVE SumSubtotals(_)
SumSubtotals(n) ==
    IF n = 0 THEN 0 ELSE SumSubtotals(n - 1) + screen.sections[n].totalValue.v

\* Every value is a number, a numeric string or absent
ValuesNumeric == \A i \in 1..Len(tokens) : Parseable(tokens[i].value)

\* C29: for values that are numbers, numeric strings or absent, the total of
\* the Portfolio Overview is the sum of the subtotals of the chain sections
\* made of the same list.
TotalIsSumOfSubtotals ==
    (screen.view = "sections" /\ ValuesNumeric) =>
        overview.totalValue = Number(SumSubtotals(Len(screen.sections)))

\* C30: for every raw chain identifier the color of the section header,
\* computed from the display name, is the color of the chain badge, computed
\* from the identifier itself.
HeaderColorIsBadgeColor ==
    chainOutput.asked => chainOutput.headerColor = chainOutput.color

\* MATIC: header and badge both carry the Polygon color
WitnessHeaderColor ==
    /\ chainOutput.asked
    /\ chainInput = Str(<<"M","A","T","I","C">>)
    /\ chainOutput.name = <<"P","o","l","y","g","o","n">>
    /\ chainOutput.headerColor = "#8247E5"

\* The session login call c has established is the one in state and storage
SessionOfLogin(c) ==
    /\ calls[c].fn = "login"
    /\ calls[c].pc = "returned"
    /\ token = AuthToken(c)
    /\ user = UserObject(c)
    /\ storage = [authToken |-> AuthToken(c), user |-> JSONstringify(UserObject(c))]

\* C26: a session established by a successful login is never cleared by the
\* outcome of the startup verification: no step of loadStoredAuth changes
\* the token, the user or the persisted entries of such a session.
LoginSurvivesStartupVerify ==
    [][ (calls # <<>> /\ calls'[1] # calls[1]
           /\ \E c \in 1..Len(calls) : SessionOfLogin(c))
          => /\ token' = token
             /\ user' = user
             /\ storage' = storage ]_vars

\* Login call c comes back without a session
LoginFails(c) ==
    /\ calls[c].fn = "login"
    /\ calls[c].pc = "post"
    /\ calls'[c].pc = "returned"

WalletsOfHook ==
    IF mountedHook = "useWalletTracking"
    THEN useWalletTracking.trackedWallets
    ELSE useWalletTokens.wallets

\* The requests a step has issued
Issued == {k \in 1..Len(fetches') : k > Len(fetches)}

\* The step is a tick of the interval
IsTick == \E k \in Issued : fetches'[k].cause = "tick"

\* Without a session or without wallets no timer is armed
NoTimerWithoutSessionOrWallets ==
    (user = Null \/ token = Null \/ Len(WalletsOfHook) = 0) => ~interval

\* A tick happens with a session and wallets, and issues token requests only
TickIsPolling ==
    IsTick => /\ user # Null
              /\ token # Null
              /\ Len(WalletsOfHook) > 0
              /\ \A k \in Issued : fetches'[k].endpoint = "tokens" /\ fetches'[k].cause = "tick"

\* C21 as stated: in no state without a session or with an empty wallet list
\* is the poll timer armed, and every tick of either hook issues exactly one
\* token request.
TickIssuesOneRequest ==
    /\ []NoTimerWithoutSessionOrWallets
    /\ [][TickIsPolling /\ (IsTick => Cardinality(Issued) = 1)]_vars

\* C21 amended: in no state without a session or with an empty wallet list is
\* the poll timer armed; a tick of useWalletTracking issues exactly one token
\* request, a tick of useWalletTokens one token request for each of its
\* wallets.
TickIssuesOneRequestPerList ==
    /\ []NoTimerWithoutSessionOrWallets
    /\ [][/\ TickIsPolling
          /\ IsTick =>
                IF mountedHook = "useWalletTracking"
                THEN Cardinality(Issued) = 1
                ELSE /\ Cardinality(Issued) = Len(useWalletTokens.wallets)
                     /\ \A i \in 1..Len(useWalletTokens.wallets) :
                           fetches'[Len(fetches) + i].wallet = useWalletTokens.wallets[i]]_vars

\* A tick of useWalletTokens with two wallets has happened
WitnessTickOfTwoWallets ==
    /\ mountedHook = "useWalletTokens"
    /\ interval
    /\ \E k \in 1..Len(fetches) : fetches[k].cause = "tick" /\ fetches[k].wallet = 2

\* The tokens request k of useWalletTracking fails in this step
TokensRequestFails(k) ==
    /\ mountedHook = "useWalletTracking"
    /\ fetches[k].endpoint = "tokens"
    /\ fetches[k].status = "pending"
    /\ fetches'[k].status = "failed"

\* C22: a tokens request of useWalletTracking that fails sets the error,
\* leaves the loaded token list as it was and issues no request; a tokens
\* request is only ever issued by a tick, a refresh or a session change.
FailedTokensRequestKeepsList ==
    [][/\ \A k \in 1..Len(fetches) :
             TokensRequestFails(k) =>
                /\ useWalletTracking'.error
                /\ useWalletTracking'.tokens = useWalletTracking.tokens
                /\ Issued = {}
       /\ \A k \in Issued :
             (mountedHook = "useWalletTracking" /\ fetches'[k].endpoint = "tokens")
                => fetches'[k].cause \in {"tick", "refresh", "session"}]_vars

\* A tokens request has failed after a token list was loaded
WitnessFailedTokensRequest ==
    /\ mountedHook = "useWalletTracking"
    /\ useWalletTracking.error
    /\ useWalletTracking.tokens # <<>>
    /\ \E k \in 1..Len(fetches) :
          /\ fetches[k].endpoint = "tokens"
          /\ fetches[k].status = "failed"
          /\ fetches[k].cause \in {"tick", "refresh"}

\* C23: while useWalletTracking has no session, its tracked-wallet list and
\* its token list are empty.
ListsEmptyWithoutSession ==
    (mountedHook = "useWalletTracking" /\ (user = Null \/ token = Null))
        => /\ useWalletTracking.trackedWallets = <<>>
           /\ useWalletTracking.tokens = <<>>

\* A wallets or tokens request of useWalletTracking is in flight
RequestInFlight ==
    \E k \in 1..Len(fetches) :
        fetches[k].endpoint \in {"wallets", "tokens"} /\ fetches[k].status = "pending"

\* C24: loading of useWalletTracking is true whenever a wallets or tokens
\* request is in flight.
LoadingWhileInFlight ==
    (mountedHook = "useWalletTracking" /\ RequestInFlight) => useWalletTracking.loading

\* The tokens requests of useWalletTracking, in order of issue
TokensRequests == {k \in 1..Len(fetches) : fetches[k].endpoint = "tokens"}

LastTokensRequest == CHOOSE k \in TokensRequests : \A j \in TokensRequests : j <= k

\* C25: when several tokens requests of the current session have overlapped
\* and all of them have been answered, the token list of useWalletTracking is
\* the response of the one that was issued last.
LastIssuedRequestWins ==
    ( /\ mountedHook = "useWalletTracking"
      /\ token # Null
      /\ Cardinality(TokensRequests) >= 2
      /\ \A k \in TokensRequests : fetches[k].status = "answered" /\ fetches[k].bearer = token )
        => useWalletTracking.tokens = fetches[LastTokensRequest].response

====
